---- MODULE Spec2Model ----
(***************************************************************************)
(* Model of the generic set container of package set (set.go).            *)
(*                                                                         *)
(* A Set[E] is a struct holding one Go map, map[E]struct{}.  A Go map is a *)
(* reference: copying the struct (passing a Set by value, as every         *)
(* `other Set[E]` parameter does) copies the reference, not the entries.   *)
(* The model therefore keeps a heap of map objects and, for each set       *)
(* handle of the client program, the address of the map it holds.          *)
(***************************************************************************)
EXTENDS Integers, Sequences, FiniteSets, TLC

\* ---------------------------------------------------------------- bounds
\* Element values are 0 .. MaxElem-1; variadic calls take at most MaxArgs
\* arguments.
MaxElem == 2
MaxArgs == 2

\* The element type E is instantiated with int, as in the tests: == on the
\* elements is reflexive, so a key that was stored is found again.
Elem == 0 .. (MaxElem - 1)

\* The set handles (variables of type Set[E]) of the client program, in a
\* fixed order.
VarOrder == <<"a", "b", "r">>
Var == {VarOrder[i] : i \in DOMAIN VarOrder}

\* Addresses of map objects: one per handle plus two for the temporaries an
\* operation allocates before its result is assigned.
MapId == 1 .. (Len(VarOrder) + 2)

\* The nil map, which the zero value of Set[E] holds: address 0, which no
\* map object occupies.  A nil map reads as an empty one (len is 0, no key
\* is found, a range statement visits nothing), so the heap keeps an empty
\* map there for the reads; an assignment to an entry of it panics.
Nil == 0

VARIABLES
    heap,   \* address -> map object, defined on the allocated addresses
            \* and on Nil
    sets,   \* handle -> address of the map held in its field `set`, defined
            \* on the handles the client has assigned a set to
    last,   \* the most recent call: operation, operands, arguments, result
    model,  \* handle -> the mathematical set the same calls produce
    iter,   \* the iterator value the client holds and the pass over it,
            \* if one is under way
    MaxDisplayableElements, \* the package variable of the ordered variant
    panic   \* the run-time panic a call has raised, if any

vars == <<heap, sets, last, model, iter, MaxDisplayableElements, panic>>

\* ------------------------------------------------------- Go's map[E]struct{}
\* The empty struct value struct{}{}.
Unit == <<>>

\* make(map[E]struct{}, n): a map with no entries.
EmptyMap == [k \in {} |-> Unit]

\* m[k] = struct{}{}
MapSet(m, k) == [x \in (DOMAIN m) \cup {k} |-> Unit]

\* delete(m, k): a no-op when k is absent.
MapDelete(m, k) == [x \in (DOMAIN m) \ {k} |-> m[x]]

\* clear(m)
MapClear(m) == [x \in {} |-> Unit]

\* len(m)
MapLen(m) == Cardinality(DOMAIN m)

\* _, ok := m[k]
MapHas(m, k) == k \in DOMAIN m

\* The orders in which `for k := range m` may visit the keys of m: Go leaves
\* the order unspecified, so every permutation is possible.
RangeOrders(m) ==
    LET n == Cardinality(DOMAIN m)
    IN  {o \in [1 .. n -> DOMAIN m] : \A k \in DOMAIN m : \E i \in 1 .. n : o[i] = k}

\* An address no map object occupies.
Fresh(h) == CHOOSE i \in MapId : i \notin DOMAIN h

\* Allocation of a map object at a fresh address.
Alloc(h, m) == [heap |-> [i \in (DOMAIN h) \cup {Fresh(h)} |-> IF i = Fresh(h) THEN m ELSE h[i]],
                ref  |-> Fresh(h)]

\* Garbage collection: map objects no handle refers to are dropped, and the
\* remaining ones are renumbered by the first handle (in VarOrder) that
\* holds them.  Addresses are not observable in Go, so this loses nothing.
RepIndex(s, v) == CHOOSE i \in DOMAIN VarOrder :
                      /\ VarOrder[i] \in DOMAIN s
                      /\ s[VarOrder[i]] = s[v]
                      /\ \A j \in DOMAIN VarOrder :
                             (VarOrder[j] \in DOMAIN s /\ s[VarOrder[j]] = s[v]) => i <= j

CollectSets(s) == [v \in DOMAIN s |-> IF s[v] = Nil THEN Nil ELSE RepIndex(s, v)]

CollectHeap(h, s) ==
    [i \in {Nil} \cup {RepIndex(s, v) : v \in {w \in DOMAIN s : s[w] # Nil}} |->
        IF i = Nil THEN h[Nil] ELSE h[s[VarOrder[i]]]]

\* The elements of the set a handle holds.
Elems(v) == DOMAIN heap[sets[v]]

\* ------------------------------------------------------------ Set[E] methods
\* Each takes the heap and the addresses of the maps of the receiver's and the
\* argument's `set` field, and returns the new heap (and the address of the
\* returned set's map).

\* panic: assignment to entry in nil map
Panic == "assignment to entry in nil map"

\* me.set[element] = struct{}{} is reached with me.set nil.
AddPanics(h, me, elements) == me = Nil /\ Len(elements) > 0

\* func (me *Set[E]) Add(elements ...E)
RECURSIVE AddLoop(_, _, _, _)
AddLoop(h, me, elements, i) ==
    IF i > Len(elements) THEN h
    ELSE AddLoop([h EXCEPT ![me] = MapSet(@, elements[i])], me, elements, i + 1)

\* Mutant of SetAdd: the loop returns after its first iteration.
SetAddFirstOnly(h, me, elements) ==
    IF Len(elements) = 0 THEN h ELSE [h EXCEPT ![me] = MapSet(@, elements[1])]

SetAdd(h, me, elements) == AddLoop(h, me, elements, 1)

\* Mutant of SetNew: without elements the zero Set[E] is returned, whose
\* map was never made.
SetNewZeroWhenEmpty(h, elements) ==
    LET set == Alloc(h, EmptyMap)
    IN  IF Len(elements) > 0
        THEN [heap |-> SetAdd(set.heap, set.ref, elements), ref |-> set.ref]
        ELSE [heap |-> h, ref |-> Nil]

\* func New[E comparable](elements ...E) Set[E]
SetNew(h, elements) ==
    LET set == Alloc(h, EmptyMap)
    IN  IF Len(elements) > 0
        THEN [heap |-> SetAdd(set.heap, set.ref, elements), ref |-> set.ref]
        ELSE set

\* func (me *Set[E]) Delete(elements ...E)
RECURSIVE DeleteLoop(_, _, _, _)
DeleteLoop(h, me, elements, i) ==
    IF i > Len(elements) THEN h
    ELSE DeleteLoop([h EXCEPT ![me] = MapDelete(@, elements[i])], me, elements, i + 1)

\* Mutant of SetDelete: the loop skips the first named element.
SetDeleteSkipFirst(h, me, elements) == DeleteLoop(h, me, elements, 2)

SetDelete(h, me, elements) == DeleteLoop(h, me, elements, 1)

\* Clear with a value receiver that replaces the map of its own copy of the
\* set: the caller's set keeps its elements.
SetClearOnCopy(h, me) == h

\* func (me *Set[E]) Clear()
SetClear(h, me) == [h EXCEPT ![me] = MapClear(@)]

\* func (me *Set[E]) Len() int
SetLen(h, me) == MapLen(h[me])

\* func (me *Set[E]) IsEmpty() bool
SetIsEmpty(h, me) == MapLen(h[me]) = 0

\* func (me *Set[E]) Contains(element E) bool
SetContains(h, me, element) == MapHas(h[me], element)

\* func (me *Set[E]) Difference(other Set[E]) Set[E]
\* `order` is the order in which the range over me.set visits the keys.
RECURSIVE DifferenceLoop(_, _, _, _, _)
DifferenceLoop(h, diff, other, order, i) ==
    IF i > Len(order) THEN h
    ELSE DifferenceLoop(IF ~MapHas(h[other], order[i])
                        THEN [h EXCEPT ![diff] = MapSet(@, order[i])]
                        ELSE h,
                        diff, other, order, i + 1)

SetDifference(h, me, other, order) ==
    LET diff == SetNew(h, <<>>)
    IN  [heap |-> DifferenceLoop(diff.heap, diff.ref, other, order, 1), ref |-> diff.ref]

\* Mutant of SetSymmetricDifference: the second loop is missing.
SetSymmetricDifferenceOneWay(h, me, other, order1, order2) ==
    SetDifference(h, me, other, order1)

\* func (me *Set[E]) SymmetricDifference(other Set[E]) Set[E]
\* order1 is the visiting order of the range over me.set, order2 that of the
\* range over other.set; both loops have the shape of Difference's loop.
SetSymmetricDifference(h, me, other, order1, order2) ==
    LET diff == SetNew(h, <<>>)
        h1 == DifferenceLoop(diff.heap, diff.ref, other, order1, 1)
    IN  [heap |-> DifferenceLoop(h1, diff.ref, me, order2, 1), ref |-> diff.ref]

\* func (me *Set[E]) Intersection(other Set[E]) Set[E]
RECURSIVE IntersectionLoop(_, _, _, _, _)
IntersectionLoop(h, intersection, other, order, i) ==
    IF i > Len(order) THEN h
    ELSE IntersectionLoop(IF MapHas(h[other], order[i])
                          THEN [h EXCEPT ![intersection] = MapSet(@, order[i])]
                          ELSE h,
                          intersection, other, order, i + 1)

\* Mutant of SetIntersection: the membership test is missing, so every
\* element of the receiver is copied.
SetIntersectionNoTest(h, me, other, order) ==
    LET intersection == SetNew(h, <<>>)
    IN  [heap |-> AddLoop(intersection.heap, intersection.ref, order, 1),
         ref  |-> intersection.ref]

SetIntersection(h, me, other, order) ==
    LET intersection == SetNew(h, <<>>)
    IN  [heap |-> IntersectionLoop(intersection.heap, intersection.ref, other, order, 1),
         ref  |-> intersection.ref]

\* func (me *Set[E]) Unite(other Set[E])
\* `order` is the visiting order of the range over other.set.  When me and
\* other hold the same map every assignment overwrites an existing key, so
\* no entry is created during the iteration.
RECURSIVE UniteLoop(_, _, _, _)
UniteLoop(h, me, order, i) ==
    IF i > Len(order) THEN h
    ELSE UniteLoop([h EXCEPT ![me] = MapSet(@, order[i])], me, order, i + 1)

\* me.set[element] = struct{}{} is reached with me.set nil.
UnitePanics(h, me, other) == me = Nil /\ DOMAIN h[other] # {}

\* Mutant of SetUnite: the loop assigns into other.set instead of me.set.
SetUniteIntoOther(h, me, other, order) == UniteLoop(h, other, order, 1)

SetUnite(h, me, other, order) == UniteLoop(h, me, order, 1)

\* Mutant of SetClone: the struct is copied, not the map.
SetCloneShallow(h, me) == [heap |-> h, ref |-> me]

\* func (me *Set[E]) Clone() Set[E]: maps.Clone copies the entries into a
\* new map object, and returns nil for a nil map.
SetClone(h, me) ==
    IF me = Nil THEN [heap |-> h, ref |-> Nil]
    ELSE Alloc(h, [k \in DOMAIN h[me] |-> h[me][k]])

\* The Unite that Union calls on the clone panics.
UnionPanics(h, me, other) ==
    LET union == SetClone(h, me)
    IN  UnitePanics(union.heap, union.ref, other)

\* Mutant of SetUnion: the receiver is united in place and returned, without
\* a clone.
SetUnionInPlace(h, me, other, order) ==
    [heap |-> SetUnite(h, me, other, order), ref |-> me]

\* func (me *Set[E]) Union(other Set[E]) Set[E]
SetUnion(h, me, other, order) ==
    LET union == SetClone(h, me)
    IN  [heap |-> SetUnite(union.heap, union.ref, other, order), ref |-> union.ref]

\* Mutant of SetEqual: the lengths are not compared.
SetEqualNoLen(h, me, other) == \A k \in DOMAIN h[me] : MapHas(h[other], k)

\* func (me *Set[E]) Equal(other Set[E]) bool: maps.Equal compares the
\* lengths and then looks every entry of the first map up in the second.
SetEqual(h, me, other) ==
    /\ MapLen(h[me]) = MapLen(h[other])
    /\ \A k \in DOMAIN h[me] : MapHas(h[other], k) /\ h[other][k] = h[me][k]

\* func (me *Set[E]) IsDisjoint(other Set[E]) bool
RECURSIVE IsDisjointLoop(_, _, _, _)
IsDisjointLoop(h, other, order, i) ==
    IF i > Len(order) THEN TRUE
    ELSE IF MapHas(h[other], order[i]) THEN FALSE
    ELSE IsDisjointLoop(h, other, order, i + 1)

SetIsDisjoint(h, me, other, order) == IsDisjointLoop(h, other, order, 1)

\* func (me *Set[E]) IsSubsetOf(other Set[E]) bool
RECURSIVE IsSubsetOfLoop(_, _, _, _)
IsSubsetOfLoop(h, other, order, i) ==
    IF i > Len(order) THEN TRUE
    ELSE IF ~MapHas(h[other], order[i]) THEN FALSE
    ELSE IsSubsetOfLoop(h, other, order, i + 1)

SetIsSubsetOf(h, me, other, order) == IsSubsetOfLoop(h, other, order, 1)

\* Mutant of SetIsSupersetOf: me.IsSubsetOf(other) instead of
\* other.IsSubsetOf(me).
SetIsSupersetOfUnswapped(h, me, other, order) ==
    \A k \in DOMAIN h[me] : MapHas(h[other], k)

\* func (me Set[E]) IsSupersetOf(other Set[E]) bool
\* `order` is the visiting order of the range over other.set.
SetIsSupersetOf(h, me, other, order) == SetIsSubsetOf(h, other, me, order)

\* func (me *Set[E]) ToSlice() []E (unordered variant)
RECURSIVE ToSliceLoop(_, _, _)
ToSliceLoop(slice, order, i) ==
    IF i > Len(order) THEN slice
    ELSE ToSliceLoop(Append(slice, order[i]), order, i + 1)

\* Mutant of SetToSlice: the first key visited is not appended.
SetToSliceSkipFirst(h, me, order) == ToSliceLoop(<<>>, order, 2)

SetToSlice(h, me, order) == ToSliceLoop(<<>>, order, 1)

\* ------------------------------------------------------------------ state
None == "-"

\* ------------------------------------------------------------- iterators
\* The largest start index passed to AllX, and the number of range
\* statements run over one iterator value.
MaxStart == 1
MaxPasses == 2

\* The start arguments of AllX(start ...int).
StartLists == UNION {[1 .. n -> 0 .. MaxStart] : n \in 0 .. 2}

\* The value All or AllX returns: a closure over the receiver and the start
\* arguments, which no range statement has called yet.  A pass adds the
\* order the map's keys come in, the item at which the consumer's loop body
\* breaks (0: never), the keys and the indices yielded so far and the
\* counter i.
Iterator(kind, me, start) ==
    [kind |-> kind, me |-> me, start |-> start, status |-> "created", pass |-> 0,
     order |-> <<>>, limit |-> 0, keys |-> <<>>, indices |-> <<>>, i |-> 0]

\* The client holds no iterator.
NoIterator == [Iterator(None, None, <<>>) EXCEPT !.status = "none"]

\* Mutant of AllXStart: the start argument is ignored.
AllXStartIgnored(start) == 0

\* i := 0; if len(start) > 0 { i = start[0] }
AllXStart(start) == IF Len(start) > 0 THEN start[1] ELSE 0

\* A range statement calls the closure: i is set and the loop over the
\* map begins; over an empty map the closure returns at once.
IterCall(it, order, limit) ==
    [it EXCEPT !.pass = @ + 1, !.order = order, !.limit = limit,
               !.keys = <<>>, !.indices = <<>>,
               !.i = IF it.kind = "AllX" THEN AllXStart(it.start) ELSE 0,
               !.status = IF order = <<>> THEN "done" ELSE "running"]

\* if !yield(key) { return } and, in AllX, if !yield(i, key) { return }; i++
\* The loop body breaks at item number limit; the closure returns when
\* yield returns false or no key is left.
IterYield(it) ==
    LET n == Len(it.keys) + 1
        yielded == [it EXCEPT !.keys = Append(@, it.order[n]),
                              !.indices = IF it.kind = "AllX" THEN Append(@, it.i) ELSE @]
    IN  IF n = it.limit THEN [yielded EXCEPT !.status = "stopped"]
        ELSE [yielded EXCEPT !.i = IF it.kind = "AllX" THEN @ + 1 ELSE @,
                             !.status = IF n = Len(it.order) THEN "done" ELSE "running"]

Call(op, me, other, dst, args, ret) ==
    [op |-> op, me |-> me, other |-> other, dst |-> dst, args |-> args, ret |-> ret]

\* Argument lists of the variadic calls.
ArgLists == UNION {[1 .. n -> Elem] : n \in 0 .. MaxArgs}

\* The distinct values of a sequence.
Range(seq) == {seq[i] : i \in DOMAIN seq}

\* The handles that serve as operands, and the handle that receives the
\* result of a set-algebra or Clone call.
Operands == {"a", "b"}
Result == "r"

\* ------------------------------------------------------------- rendering
\* Element values that carry their dynamic type, for sets whose rendering
\* depends on it: Set[int], Set[string] and Set[any] (unordered variant
\* only, any not being cmp.Ordered).
IntValue(n) == [int |-> n]
StringValue(s) == [str |-> s]

\* The string values, in ascending order.
Strings == <<"a", "b">>

Values == {IntValue(n) : n \in Elem} \cup {StringValue(Strings[i]) : i \in DOMAIN Strings}

\* _, ok := any(key).(string)
IsString(e) == "str" \in DOMAIN e

\* The sets an ordered Set[E] can hold: E is one type.
Homogeneous(elements) ==
    \/ \A e \in elements : IsString(e)
    \/ \A e \in elements : ~IsString(e)

\* x < y for two values of one cmp.Ordered type.
Less(x, y) ==
    IF IsString(x)
    THEN (CHOOSE i \in DOMAIN Strings : Strings[i] = x.str)
             < (CHOOSE i \in DOMAIN Strings : Strings[i] = y.str)
    ELSE x.int < y.int

\* slices.Sort, as an insertion sort.
RECURSIVE SortInsert(_, _)
SortInsert(sorted, e) ==
    IF sorted = <<>> THEN <<e>>
    ELSE IF Less(e, Head(sorted)) THEN <<e>> \o sorted
    ELSE <<Head(sorted)>> \o SortInsert(Tail(sorted), e)

RECURSIVE SortLoop(_, _, _)
SortLoop(sorted, slice, i) ==
    IF i > Len(slice) THEN sorted
    ELSE SortLoop(SortInsert(sorted, slice[i]), slice, i + 1)

\* Mutant of SlicesSort: the slice is left as it is.
SlicesSortNothing(slice) == slice

SlicesSort(slice) == SortLoop(<<>>, slice, 1)

\* The verb %v: a string as it is, an int in decimal.
FormatV(e) == IF IsString(e) THEN e.str ELSE ToString(e.int)

\* The verb %q: a string in double quotes; an int as the single-quoted
\* character literal of that code point, which for 0..6 is the escape \x0n.
FormatQ(e) ==
    IF IsString(e) THEN "\"" \o e.str \o "\""
    ELSE "'\\x0" \o ToString(e.int) \o "'"

\* The character U+2026, which a string of this module cannot hold.
Ellipsis == "..."

\* Ordered variant: func (me *Set[E]) ToSlice() []E
OrderedSetToSlice(h, me, order) == SlicesSort(ToSliceLoop(<<>>, order, 1))

\* Ordered variant: the loop of String() over the sorted elements.
RECURSIVE OrderedStringLoop(_, _, _, _)
OrderedStringLoop(out, elements, i, sep) ==
    IF i > Len(elements) THEN out
    ELSE OrderedStringLoop(
             out \o sep \o (IF IsString(elements[i]) THEN FormatQ(elements[i])
                                                    ELSE FormatV(elements[i])),
             elements, i + 1, " ")

\* Mutant of Truncates: a set of exactly max elements is not enumerated.
TruncatesAtThreshold(n, max) == n >= max

\* if len(me.set) > MaxDisplayableElements
Truncates(n, max) == n > max

\* Ordered variant: func (me *Set[E]) String() string
OrderedSetString(h, me, order, max) ==
    IF Truncates(MapLen(h[me]), max)
    THEN "{" \o Ellipsis \o ToString(MapLen(h[me])) \o " elements" \o Ellipsis \o "}"
    ELSE LET elements == SlicesSort(OrderedSetToSlice(h, me, order))
         IN  OrderedStringLoop("{", elements, 1, "") \o "}"

\* Unordered variant: func (me *Set[E]) hasStringElements() bool, whose
\* range statement returns at the first key it visits.
SetHasStringElements(h, me, order) ==
    IF order = <<>> THEN FALSE ELSE IsString(order[1])

\* fmt.Fprintf(&out, format, sep, element)
Fprintf(format, sep, element) ==
    sep \o (IF format = "%s%q" THEN FormatQ(element) ELSE FormatV(element))

RECURSIVE StringLoop(_, _, _, _, _)
StringLoop(out, format, elements, i, sep) ==
    IF i > Len(elements) THEN out
    ELSE StringLoop(out \o Fprintf(format, sep, elements[i]), format, elements, i + 1, " ")

\* Unordered variant: func (me *Set[E]) String() string.  The map is ranged
\* over twice, by hasStringElements and by ToSlice, each in an order of
\* its own.
SetString(h, me, order1, order2) ==
    LET format == IF SetHasStringElements(h, me, order1) THEN "%s%q" ELSE "%s%v"
    IN  StringLoop("{", format, SetToSlice(h, me, order2), 1, "") \o "}"

\* var MaxDisplayableElements = 100
DefaultMaxDisplayableElements == 100

\* a := New[E](); b := New[E](); the Result handle is not assigned yet.
Init ==
    /\ heap = [i \in {Nil} \cup {RepIndex([w \in Operands |-> w], v) : v \in Operands} |->
                  EmptyMap]
    /\ sets = [v \in Operands |-> RepIndex([w \in Operands |-> w], v)]
    /\ last = Call("Init", None, None, None, <<>>, None)
    /\ model = [v \in Var |-> {}]
    /\ iter = NoIterator
    /\ MaxDisplayableElements = DefaultMaxDisplayableElements
    /\ panic = None

\* A call returned the set at address ref of heap h and the client assigned
\* it to handle dst.
Assign(h, dst, ref) ==
    LET s == [v \in (DOMAIN sets) \cup {dst} |-> IF v = dst THEN ref ELSE sets[v]]
    IN  /\ sets' = CollectSets(s)
        /\ heap' = CollectHeap(h, s)

\* v = New(elements...)
New(v, elements) ==
    LET set == SetNew(heap, elements)
    IN  /\ Assign(set.heap, v, set.ref)
        /\ UNCHANGED <<iter, MaxDisplayableElements, panic>>
        /\ last' = Call("New", None, None, v, elements, None)
        /\ model' = [model EXCEPT ![v] = Range(elements)]

\* v.Add(elements...)
Add(v, elements) ==
    IF AddPanics(heap, sets[v], elements)
    THEN /\ panic' = Panic
         /\ last' = Call("Add", v, None, None, elements, None)
         /\ UNCHANGED <<heap, sets, model, iter, MaxDisplayableElements>>
    ELSE /\ heap' = SetAdd(heap, sets[v], elements)
         /\ UNCHANGED <<iter, MaxDisplayableElements, panic>>
         /\ last' = Call("Add", v, None, None, elements, None)
         /\ model' = [model EXCEPT ![v] = @ \cup Range(elements)]
         /\ UNCHANGED sets

\* v.Delete(elements...)
Delete(v, elements) ==
    /\ heap' = SetDelete(heap, sets[v], elements)
    /\ UNCHANGED <<iter, MaxDisplayableElements, panic>>
    /\ last' = Call("Delete", v, None, None, elements, None)
    /\ model' = [model EXCEPT ![v] = @ \ Range(elements)]
    /\ UNCHANGED sets

\* v.Clear()
Clear(v) ==
    /\ heap' = SetClear(heap, sets[v])
    /\ UNCHANGED <<iter, MaxDisplayableElements, panic>>
    /\ last' = Call("Clear", v, None, None, <<>>, None)
    /\ model' = [model EXCEPT ![v] = {}]
    /\ UNCHANGED sets

\* v.Len()
Len_(v) ==
    /\ UNCHANGED <<iter, MaxDisplayableElements, panic>>
    /\ last' = Call("Len", v, None, None, <<>>, SetLen(heap, sets[v]))
    /\ UNCHANGED <<heap, sets, model>>

\* v.IsEmpty()
IsEmpty(v) ==
    /\ UNCHANGED <<iter, MaxDisplayableElements, panic>>
    /\ last' = Call("IsEmpty", v, None, None, <<>>, SetIsEmpty(heap, sets[v]))
    /\ UNCHANGED <<heap, sets, model>>

\* v.Contains(x)
Contains(v, x) ==
    /\ UNCHANGED <<iter, MaxDisplayableElements, panic>>
    /\ last' = Call("Contains", v, None, None, <<x>>, SetContains(heap, sets[v], x))
    /\ UNCHANGED <<heap, sets, model>>

\* The operations that return a new set.
AlgebraOps == {"Difference", "SymmetricDifference", "Intersection", "Union"}

\* dst = x.Difference(y)
Difference(x, y, dst) ==
    \E order \in RangeOrders(heap[sets[x]]) :
        LET res == SetDifference(heap, sets[x], sets[y], order)
        IN  /\ Assign(res.heap, dst, res.ref)
            /\ UNCHANGED <<iter, MaxDisplayableElements, panic>>
            /\ last' = Call("Difference", x, y, dst, <<>>, None)
            /\ model' = [model EXCEPT ![dst] = model[x] \ model[y]]

\* dst = x.SymmetricDifference(y)
SymmetricDifference(x, y, dst) ==
    \E order1 \in RangeOrders(heap[sets[x]]), order2 \in RangeOrders(heap[sets[y]]) :
        LET res == SetSymmetricDifference(heap, sets[x], sets[y], order1, order2)
        IN  /\ Assign(res.heap, dst, res.ref)
            /\ UNCHANGED <<iter, MaxDisplayableElements, panic>>
            /\ last' = Call("SymmetricDifference", x, y, dst, <<>>, None)
            /\ model' = [model EXCEPT ![dst] = (model[x] \ model[y]) \cup (model[y] \ model[x])]

\* dst = x.Intersection(y)
Intersection(x, y, dst) ==
    \E order \in RangeOrders(heap[sets[x]]) :
        LET res == SetIntersection(heap, sets[x], sets[y], order)
        IN  /\ Assign(res.heap, dst, res.ref)
            /\ UNCHANGED <<iter, MaxDisplayableElements, panic>>
            /\ last' = Call("Intersection", x, y, dst, <<>>, None)
            /\ model' = [model EXCEPT ![dst] = model[x] \cap model[y]]

\* dst = x.Union(y)
Union(x, y, dst) ==
    IF UnionPanics(heap, sets[x], sets[y])
    THEN /\ panic' = Panic
         /\ last' = Call("Union", x, y, dst, <<>>, None)
         /\ UNCHANGED <<heap, sets, model, iter, MaxDisplayableElements>>
    ELSE \E order \in RangeOrders(heap[sets[y]]) :
             LET res == SetUnion(heap, sets[x], sets[y], order)
             IN  /\ Assign(res.heap, dst, res.ref)
                 /\ UNCHANGED <<iter, MaxDisplayableElements, panic>>
                 /\ last' = Call("Union", x, y, dst, <<>>, None)
                 /\ model' = [model EXCEPT ![dst] = model[x] \cup model[y]]

\* x.Unite(y)
Unite(x, y) ==
    IF UnitePanics(heap, sets[x], sets[y])
    THEN /\ panic' = Panic
         /\ last' = Call("Unite", x, y, None, <<>>, None)
         /\ UNCHANGED <<heap, sets, model, iter, MaxDisplayableElements>>
    ELSE \E order \in RangeOrders(heap[sets[y]]) :
             /\ heap' = SetUnite(heap, sets[x], sets[y], order)
             /\ UNCHANGED <<iter, MaxDisplayableElements, panic>>
             /\ last' = Call("Unite", x, y, None, <<>>, None)
             /\ model' = [model EXCEPT ![x] = model[x] \cup model[y]]
             /\ UNCHANGED sets

\* dst = x.Clone()
Clone(x, dst) ==
    LET res == SetClone(heap, sets[x])
    IN  /\ Assign(res.heap, dst, res.ref)
        /\ UNCHANGED <<iter, MaxDisplayableElements, panic>>
        /\ last' = Call("Clone", x, None, dst, <<>>, None)
        /\ model' = [model EXCEPT ![dst] = model[x]]

\* x.Equal(y)
Equal(x, y) ==
    /\ UNCHANGED <<iter, MaxDisplayableElements, panic>>
    /\ last' = Call("Equal", x, y, None, <<>>, SetEqual(heap, sets[x], sets[y]))
    /\ UNCHANGED <<heap, sets, model>>

\* x.IsDisjoint(y)
IsDisjoint(x, y) ==
    \E order \in RangeOrders(heap[sets[x]]) :
        /\ UNCHANGED <<iter, MaxDisplayableElements, panic>>
        /\ last' = Call("IsDisjoint", x, y, None, <<>>,
                        SetIsDisjoint(heap, sets[x], sets[y], order))
        /\ UNCHANGED <<heap, sets, model>>

\* x.IsSubsetOf(y)
IsSubsetOf(x, y) ==
    \E order \in RangeOrders(heap[sets[x]]) :
        /\ UNCHANGED <<iter, MaxDisplayableElements, panic>>
        /\ last' = Call("IsSubsetOf", x, y, None, <<>>,
                        SetIsSubsetOf(heap, sets[x], sets[y], order))
        /\ UNCHANGED <<heap, sets, model>>

\* x.IsSupersetOf(y)
IsSupersetOf(x, y) ==
    \E order \in RangeOrders(heap[sets[y]]) :
        /\ UNCHANGED <<iter, MaxDisplayableElements, panic>>
        /\ last' = Call("IsSupersetOf", x, y, None, <<>>,
                        SetIsSupersetOf(heap, sets[x], sets[y], order))
        /\ UNCHANGED <<heap, sets, model>>

\* v.ToSlice()
ToSlice(v) ==
    \E order \in RangeOrders(heap[sets[v]]) :
        /\ UNCHANGED <<iter, MaxDisplayableElements, panic>>
        /\ last' = Call("ToSlice", v, None, None, <<>>, SetToSlice(heap, sets[v], order))
        /\ UNCHANGED <<heap, sets, model>>

\* v = New(elements...); u := v.ToSlice()
NewToSlice(v, elements) ==
    LET set == SetNew(heap, elements)
    IN  \E order \in RangeOrders(set.heap[set.ref]) :
            /\ Assign(set.heap, v, set.ref)
            /\ UNCHANGED <<iter, MaxDisplayableElements, panic>>
            /\ last' = Call("NewToSlice", None, None, v, elements,
                            SetToSlice(set.heap, set.ref, order))
            /\ model' = [model EXCEPT ![v] = Range(elements)]

\* d := x.Union(y); e := y.Union(x); d.Equal(e)
UnionCommutes(x, y) ==
    \E order1 \in RangeOrders(heap[sets[y]]), order2 \in RangeOrders(heap[sets[x]]) :
        LET d == SetUnion(heap, sets[x], sets[y], order1)
            e == SetUnion(d.heap, sets[y], sets[x], order2)
        IN  /\ UNCHANGED <<iter, MaxDisplayableElements, panic>>
            /\ last' = Call("UnionCommutes", x, y, None, <<>>, SetEqual(e.heap, d.ref, e.ref))
            /\ UNCHANGED <<heap, sets, model>>

\* d := x.Intersection(y); e := y.Intersection(x); d.Equal(e)
IntersectionCommutes(x, y) ==
    \E order1 \in RangeOrders(heap[sets[x]]), order2 \in RangeOrders(heap[sets[y]]) :
        LET d == SetIntersection(heap, sets[x], sets[y], order1)
            e == SetIntersection(d.heap, sets[y], sets[x], order2)
        IN  /\ UNCHANGED <<iter, MaxDisplayableElements, panic>>
            /\ last' = Call("IntersectionCommutes", x, y, None, <<>>,
                            SetEqual(e.heap, d.ref, e.ref))
            /\ UNCHANGED <<heap, sets, model>>

\* d := x.SymmetricDifference(y); e := y.SymmetricDifference(x); d.Equal(e)
SymmetricDifferenceCommutes(x, y) ==
    \E order1 \in RangeOrders(heap[sets[x]]), order2 \in RangeOrders(heap[sets[y]]),
       order3 \in RangeOrders(heap[sets[y]]), order4 \in RangeOrders(heap[sets[x]]) :
        LET d == SetSymmetricDifference(heap, sets[x], sets[y], order1, order2)
            e == SetSymmetricDifference(d.heap, sets[y], sets[x], order3, order4)
        IN  /\ UNCHANGED <<iter, MaxDisplayableElements, panic>>
            /\ last' = Call("SymmetricDifferenceCommutes", x, y, None, <<>>,
                            SetEqual(e.heap, d.ref, e.ref))
            /\ UNCHANGED <<heap, sets, model>>

\* p := x.IsSubsetOf(y); q := y.IsSupersetOf(x)
SubsetSuperset(x, y) ==
    \E order1 \in RangeOrders(heap[sets[x]]), order2 \in RangeOrders(heap[sets[x]]) :
        /\ UNCHANGED <<iter, MaxDisplayableElements, panic>>
        /\ last' = Call("SubsetSuperset", x, y, None, <<>>,
                        <<SetIsSubsetOf(heap, sets[x], sets[y], order1),
                          SetIsSupersetOf(heap, sets[y], sets[x], order2)>>)
        /\ UNCHANGED <<heap, sets, model>>

\* it := v.All()
All(v) ==
    /\ iter.status # "running"
    /\ iter' = Iterator("All", v, <<>>)
    /\ last' = Call("All", v, None, None, <<>>, None)
    /\ UNCHANGED <<heap, sets, model, MaxDisplayableElements, panic>>

\* it := v.AllX(start...)
AllX(v, start) ==
    /\ iter.status # "running"
    /\ iter' = Iterator("AllX", v, start)
    /\ last' = Call("AllX", v, None, None, start, None)
    /\ UNCHANGED <<heap, sets, model, MaxDisplayableElements, panic>>

\* for ... := range it { ... }: the statement begins a pass over the
\* iterator the client holds, in one of the orders the map may be ranged in.
ForRange(limit) ==
    /\ iter.status \in {"created", "done", "stopped"}
    /\ iter.pass < MaxPasses
    /\ \E order \in RangeOrders(heap[sets[iter.me]]) :
           /\ limit <= Len(order)
           /\ iter' = IterCall(iter, order, limit)
    /\ UNCHANGED <<heap, sets, last, model, MaxDisplayableElements, panic>>

\* The next key is yielded to the loop body.
Yield ==
    /\ iter.status = "running"
    /\ iter' = IterYield(iter)
    /\ UNCHANGED <<heap, sets, last, model, MaxDisplayableElements, panic>>

\* The keys a range statement visits when its body returns in the first
\* iteration: the first key of one of the orders, or none of an empty map.
FirstVisits(m) ==
    {[i \in 1 .. (IF order = <<>> THEN 0 ELSE 1) |-> order[i]] : order \in RangeOrders(m)}

\* Unordered variant: s := v.String()
String(v) ==
    \E order1 \in FirstVisits(heap[sets[v]]), order2 \in RangeOrders(heap[sets[v]]) :
        /\ last' = Call("String", v, None, None, <<>>,
                        SetString(heap, sets[v], order1, order2))
        /\ UNCHANGED <<heap, sets, model, iter, MaxDisplayableElements, panic>>

\* Ordered variant: s := v.String(), for a set of one element type.
OrderedString(v) ==
    /\ Homogeneous(Elems(v))
    /\ \E order \in RangeOrders(heap[sets[v]]) :
           last' = Call("OrderedString", v, None, None, <<>>,
                        OrderedSetString(heap, sets[v], order, MaxDisplayableElements))
    /\ UNCHANGED <<heap, sets, model, iter, MaxDisplayableElements, panic>>

\* set.MaxDisplayableElements = n
SetMaxDisplayableElements(n) ==
    /\ MaxDisplayableElements' = n
    /\ last' = Call("SetMaxDisplayableElements", None, None, None, <<n>>, None)
    /\ UNCHANGED <<heap, sets, model, iter, panic>>

\* ------------------------------------------------------------ specifications
\* The handles the client has assigned a set to: only these can be the
\* receiver or the argument of a call.
Assigned == DOMAIN sets

\* Single-element argument lists.
OneArg == [1 .. 1 -> Elem]

\* Construction, mutation and the element queries.
Next ==
    \/ \E v \in Operands, es \in ArgLists : New(v, es)
    \/ \E v \in Operands, es \in ArgLists : Add(v, es)
    \/ \E v \in Operands, es \in ArgLists : Delete(v, es)
    \/ \E v \in Operands : Clear(v)
    \/ \E v \in Operands : Len_(v)
    \/ \E v \in Operands : IsEmpty(v)
    \/ \E v \in Operands, x \in Elem : Contains(v, x)
    \/ \E v \in Operands : ToSlice(v)
    \/ \E v \in Operands, es \in ArgLists : NewToSlice(v, es)

Spec == Init /\ [][Next]_vars

\* Set algebra and in-place union, with the mutations that may follow them
\* on any handle: the Result handle only ever receives the result of a
\* set-algebra call.
NextAlgebra ==
    \/ \E v \in Assigned, es \in OneArg : Add(v, es)
    \/ \E v \in Assigned, es \in OneArg : Delete(v, es)
    \/ \E v \in Assigned : Clear(v)
    \/ \E x, y \in Operands : Difference(x, y, Result)
    \/ \E x, y \in Operands : SymmetricDifference(x, y, Result)
    \/ \E x, y \in Operands : Intersection(x, y, Result)
    \/ \E x, y \in Operands : Union(x, y, Result)
    \/ \E x, y \in Assigned : Unite(x, y)

SpecAlgebra == Init /\ [][NextAlgebra]_vars

\* Cloning: the Result handle only ever receives a clone of an operand, and
\* every handle may be mutated afterwards.
NextClone ==
    \/ \E v \in Assigned, es \in OneArg : Add(v, es)
    \/ \E v \in Assigned, es \in OneArg : Delete(v, es)
    \/ \E v \in Assigned : Clear(v)
    \/ \E x, y \in Assigned : Unite(x, y)
    \/ \E x \in Operands : Clone(x, Result)

SpecClone == Init /\ [][NextClone]_vars

\* The relational predicates and the commutativity checks.
NextRelations ==
    \/ \E v \in Operands, es \in OneArg : Add(v, es)
    \/ \E v \in Operands, es \in OneArg : Delete(v, es)
    \/ \E x, y \in Operands : Equal(x, y)
    \/ \E x, y \in Operands : IsDisjoint(x, y)
    \/ \E x, y \in Operands : IsSubsetOf(x, y)
    \/ \E x, y \in Operands : IsSupersetOf(x, y)
    \/ \E x, y \in Operands : SubsetSuperset(x, y)
    \/ \E x, y \in Operands : UnionCommutes(x, y)
    \/ \E x, y \in Operands : IntersectionCommutes(x, y)
    \/ \E x, y \in Operands : SymmetricDifferenceCommutes(x, y)

SpecRelations == Init /\ [][NextRelations]_vars

\* Clearing: every handle may be added to and cleared, and the Result handle
\* only ever receives a clone or a union of the operands, so it never shares
\* a map with them.
NextClear ==
    \/ \E v \in Assigned, es \in ArgLists : Add(v, es)
    \/ \E v \in Assigned : Clear(v)
    \/ \E x \in Operands : Clone(x, Result)
    \/ \E x, y \in Operands : Union(x, y, Result)

SpecClear == Init /\ [][NextClear]_vars

\* Iteration: the set is built and changed only while no pass is under way.
Iterated == "a"

NextIterate ==
    \/ \E es \in OneArg : iter.status # "running" /\ Add(Iterated, es)
    \/ \E es \in OneArg : iter.status # "running" /\ Delete(Iterated, es)
    \/ All(Iterated)
    \/ \E start \in StartLists : AllX(Iterated, start)
    \/ \E limit \in 0 .. MaxElem : ForRange(limit)
    \/ Yield

SpecIterate == Init /\ [][NextIterate]_vars

\* Rendering: one set of ints, strings or both is built and rendered by
\* either variant's String(); the ordered variant renders it while its
\* elements are of one type.
OneValue == [1 .. 1 -> Values]
Rendered == "a"

NextString ==
    \/ \E es \in OneValue : Add(Rendered, es)
    \/ \E es \in OneValue : Delete(Rendered, es)
    \/ String(Rendered)
    \/ OrderedString(Rendered)
    \/ \E n \in 0 .. MaxElem : SetMaxDisplayableElements(n)

SpecString == Init /\ [][NextString]_vars

\* Every way of obtaining a set, New with and without elements, Clone and
\* the four algebra calls, followed by mutations, a query and an iteration
\* on any handle.
NextNoFail ==
    \/ \E v \in Operands, es \in {<<>>} \cup OneArg : New(v, es)
    \/ \E v \in Assigned, es \in OneArg : Add(v, es)
    \/ \E v \in Assigned, es \in OneArg : Delete(v, es)
    \/ \E v \in Assigned : Clear(v)
    \/ \E x, y \in Assigned : Unite(x, y)
    \/ \E x \in Assigned : Clone(x, Result)
    \/ \E x, y \in Operands : Difference(x, y, Result)
    \/ \E x, y \in Operands : SymmetricDifference(x, y, Result)
    \/ \E x, y \in Operands : Intersection(x, y, Result)
    \/ \E x, y \in Operands : Union(x, y, Result)
    \/ \E v \in Assigned : Len_(v)
    \/ \E v \in Assigned : ToSlice(v)

SpecNoFail == Init /\ [][NextNoFail]_vars

\* ------------------------------------------------------------------ claims
\* The elements of the set a handle holds after the step.
ElemsNext(v) == DOMAIN heap'[sets'[v]]

\* The calls that mutate their receiver in place.
Mutators == {"Add", "Delete", "Clear", "Unite"}

\* C1: a set built by New and updated by Add, Delete and Clear behaves like
\* the mathematical set updated by the same calls: Contains(x) is true
\* exactly for the elements of the mathematical set, Len() is its
\* cardinality, and IsEmpty() is true exactly when Len() is 0; this holds of
\* the stored map in every state and of the value each query call returns.
C1_BehavesAsMathematicalSet ==
    /\ \A v \in Assigned :
          /\ \A x \in Elem : SetContains(heap, sets[v], x) <=> x \in model[v]
          /\ SetLen(heap, sets[v]) = Cardinality(model[v])
          /\ SetIsEmpty(heap, sets[v]) <=> SetLen(heap, sets[v]) = 0
    /\ last.op = "Contains" => last.ret = (last.args[1] \in model[last.me])
    /\ last.op = "Len" => last.ret = Cardinality(model[last.me])
    /\ last.op = "IsEmpty" => last.ret = (Cardinality(model[last.me]) = 0)

\* A Contains call answered false on a set that holds another element.
C1_Witness ==
    /\ last.op = "Contains"
    /\ last.ret = FALSE
    /\ model[last.me] # {}
    /\ model[last.me] # Elem

\* C2: New(seq...) followed by ToSlice() yields a slice that holds each
\* distinct element of seq exactly once and nothing else, and whose length
\* is Len(), the number of distinct elements of seq.
C2_RoundTrip ==
    last.op = "NewToSlice" =>
        LET seq == last.args
            u   == last.ret
        IN  /\ \A x \in Range(seq) : Cardinality({i \in DOMAIN u : u[i] = x}) = 1
            /\ Range(u) \subseteq Range(seq)
            /\ Len(u) = SetLen(heap, sets[last.dst])
            /\ Len(u) = Cardinality(Range(seq))

\* A round trip whose input repeats an element.
C2_Witness ==
    /\ last.op = "NewToSlice"
    /\ Len(last.args) = 2
    /\ last.args[1] = last.args[2]
    /\ Len(last.ret) = 1

\* C3: each set-algebra call returns its mathematical result, computed from
\* the operands as they were before the call: Difference A \ B,
\* Intersection A \cap B, Union A \cup B, SymmetricDifference
\* (A \ B) \cup (B \ A); and A.Difference(A) is empty.
C3_Step ==
    LET A == Elems(last'.me)
        B == Elems(last'.other)
        R == ElemsNext(last'.dst)
    IN  /\ last'.op = "Difference" => R = A \ B
        /\ last'.op = "Intersection" => R = A \cap B
        /\ last'.op = "Union" => R = A \cup B
        /\ last'.op = "SymmetricDifference" => R = (A \ B) \cup (B \ A)
        /\ (last'.op = "Difference" /\ last'.me = last'.other) =>
               SetIsEmpty(heap', sets'[last'.dst])

C3_AlgebraIsMathematical == [][C3_Step]_vars

\* A symmetric difference of two overlapping, unequal sets: one element is
\* kept and one is dropped.
C3_Witness ==
    /\ last.op = "SymmetricDifference"
    /\ Elems(last.me) \cap Elems(last.other) # {}
    /\ Elems(last.me) # Elems(last.other)
    /\ Elems(last.dst) # {}
    /\ Elems(last.dst) = (Elems(last.me) \ Elems(last.other))
                            \cup (Elems(last.other) \ Elems(last.me))

\* C4: Union, Intersection and SymmetricDifference are commutative: the
\* Equal call comparing x.op(y) with y.op(x) returns true for all sets x
\* and y, whatever order the loops visit the keys in.
C4_Commutative ==
    last.op \in {"UnionCommutes", "IntersectionCommutes", "SymmetricDifferenceCommutes"}
        => last.ret = TRUE

\* An intersection compared both ways round on two different non-empty sets
\* that overlap.
C4_Witness ==
    /\ last.op = "IntersectionCommutes"
    /\ last.me # last.other
    /\ Elems(last.me) # Elems(last.other)
    /\ Elems(last.me) \cap Elems(last.other) # {}
    /\ last.ret = TRUE

\* C5: a set-algebra call leaves the sets of all other handles, its operands
\* included, as they were, and returns a set whose storage no other handle
\* shares; and every later Add, Delete, Clear or Unite changes the set of
\* its receiver only, so mutating the result leaves the operands unchanged
\* and mutating an operand leaves the result unchanged.
C5_Step ==
    /\ last'.op \in AlgebraOps =>
          /\ \A v \in Assigned \ {last'.dst} : ElemsNext(v) = Elems(v)
          /\ \A v \in Assigned \ {last'.dst} : sets'[v] # sets'[last'.dst]
    /\ last'.op \in Mutators =>
          \A v \in Assigned \ {last'.me} : ElemsNext(v) = Elems(v)

C5_AlgebraIsPure == [][C5_Step]_vars

\* The Result handle, which only a set-algebra call assigns, has had an
\* element deleted that operand a still holds, and holds another element.
C5_Witness ==
    /\ last.op = "Delete"
    /\ last.me = Result
    /\ Range(last.args) \subseteq Elems("a")
    /\ Range(last.args) \cap Elems(Result) = {}
    /\ Elems(Result) # {}
    /\ Elems("a") = model["a"]
    /\ sets[Result] # sets["a"]

\* C6: x.Unite(y) leaves x holding exactly the elements of (old x) \cup y,
\* which is the set (old x).Union(y) returns, and changes no other set; in
\* particular y keeps its elements, and x.Unite(x) changes nothing.
C6_Step ==
    last'.op = "Unite" =>
        LET x == last'.me
            y == last'.other
        IN  /\ ElemsNext(x) = Elems(x) \cup Elems(y)
            /\ \A order \in RangeOrders(heap[sets[y]]) :
                   LET union == SetUnion(heap, sets[x], sets[y], order)
                   IN  ElemsNext(x) = DOMAIN union.heap[union.ref]
            /\ \A v \in Assigned \ {x} : ElemsNext(v) = Elems(v)
            /\ x = y => heap' = heap

C6_UniteMutatesReceiverOnly == [][C6_Step]_vars

\* A Unite that added an element to its receiver from a different set.
C6_Witness ==
    /\ last.op = "Unite"
    /\ last.me # last.other
    /\ Elems(last.other) # {}
    /\ Elems(last.me) # Elems(last.other)
    /\ Elems(last.other) \subseteq Elems(last.me)

\* C7: immediately after dst = x.Clone(), dst.Equal(x) is true and the two
\* handles hold different map objects; and every later Add, Delete, Clear
\* or Unite changes the set of its receiver only, so the clone and the
\* original evolve independently.
C7_Step ==
    /\ last'.op = "Clone" =>
          /\ SetEqual(heap', sets'[last'.dst], sets'[last'.me])
          /\ ElemsNext(last'.me) = Elems(last'.me)
          /\ sets'[last'.dst] # sets'[last'.me]
    /\ last'.op \in Mutators =>
          \A v \in Assigned \ {last'.me} : ElemsNext(v) = Elems(v)
    /\ Result \in Assigned' => \A v \in Assigned' \ {Result} : sets'[v] # sets'[Result]

C7_CloneIsIndependent == [][C7_Step]_vars

\* The Result handle, which only Clone assigns, has been given an element
\* that neither operand holds, and the operands are non-empty.
C7_Witness ==
    /\ last.op = "Add"
    /\ last.me = Result
    /\ Range(last.args) \cap (Elems("a") \cup Elems("b")) = {}
    /\ Range(last.args) \subseteq Elems(Result)
    /\ Elems("a") # {}
    /\ Elems("b") # {}
    /\ Elems("a") = model["a"]

\* C8: Equal returns true exactly when the two sets hold the same elements,
\* IsDisjoint exactly when they have no element in common, and IsSubsetOf
\* exactly when every element of the receiver is in the argument.
C8_RelationsAreMathematical ==
    LET A == Elems(last.me)
        B == Elems(last.other)
    IN  /\ last.op = "Equal" => last.ret = (A = B)
        /\ last.op = "IsDisjoint" => last.ret = (A \cap B = {})
        /\ last.op = "IsSubsetOf" => last.ret = (A \subseteq B)

\* Equal answered true for two different map objects holding the same
\* elements.
C8_Witness ==
    /\ last.op = "Equal"
    /\ last.ret = TRUE
    /\ sets[last.me] # sets[last.other]
    /\ Elems(last.me) # {}

\* C9: x.IsSubsetOf(y) and y.IsSupersetOf(x) return the same value, the
\* truth of "every element of x is in y", and neither call changes a set.
C9_Step ==
    /\ last'.op = "SubsetSuperset" =>
          /\ last'.ret[1] = last'.ret[2]
          /\ last'.ret[2] = (Elems(last'.me) \subseteq Elems(last'.other))
    /\ last'.op = "IsSupersetOf" =>
          last'.ret = (Elems(last'.other) \subseteq Elems(last'.me))
    /\ last'.op \in {"SubsetSuperset", "IsSubsetOf", "IsSupersetOf"} =>
          heap' = heap /\ sets' = sets

C9_SupersetIsConverse == [][C9_Step]_vars

\* Both calls answered false for a non-empty set that is not inside the
\* other.
C9_Witness ==
    /\ last.op = "SubsetSuperset"
    /\ last.ret = <<FALSE, FALSE>>
    /\ Elems(last.other) # {}

\* C10: Add leaves exactly the old elements plus the named ones, so adding
\* elements already present, or the same element twice, changes nothing
\* and keeps Len(); Delete leaves exactly the old elements minus the named
\* ones, so deleting absent elements changes nothing.
C10_Step ==
    LET me == last'.me
        named == Range(last'.args)
    IN  /\ last'.op = "Add" =>
              /\ ElemsNext(me) = Elems(me) \cup named
              /\ named \subseteq Elems(me) =>
                     heap' = heap /\ SetLen(heap', sets'[me]) = SetLen(heap, sets[me])
              /\ SetAdd(heap', sets'[me], last'.args) = heap'
        /\ last'.op = "Delete" =>
              /\ ElemsNext(me) = Elems(me) \ named
              /\ named \cap Elems(me) = {} => heap' = heap

C10_RedundantMutationsAreNoOps == [][C10_Step]_vars

\* A Delete naming one present and one absent element left the set
\* non-empty.
C10_Witness ==
    /\ last.op = "Delete"
    /\ Len(last.args) = 2
    /\ last.args[1] # last.args[2]
    /\ Elems(last.me) = Elem \ Range(last.args)

\* C11: Clear leaves its receiver empty (Len() is 0 and Contains is false
\* for every element) and still the same set, so that an Add right after it
\* leaves exactly the distinct elements named; no other set, be it a clone
\* or the result of Union taken earlier, changes when a set is cleared.
C11_Step ==
    LET me == last'.me
    IN  /\ last'.op = "Clear" =>
              /\ sets' = sets
              /\ SetLen(heap', sets'[me]) = 0
              /\ \A x \in Elem : ~SetContains(heap', sets'[me], x)
              /\ \A v \in Assigned \ {me} : ElemsNext(v) = Elems(v)
        /\ (last.op = "Clear" /\ last'.op = "Add" /\ last'.me = last.me) =>
              /\ sets' = sets
              /\ ElemsNext(me) = Range(last'.args)
              /\ SetLen(heap', sets'[me]) = Cardinality(Range(last'.args))

C11_ClearEmptiesOnlyItsReceiver == [][C11_Step]_vars

\* Both operands have been cleared (nothing else removes elements here)
\* while the clone or union taken before still holds every element.
C11_Witness ==
    /\ last.op = "Clear"
    /\ Result \in Assigned
    /\ Elems(Result) = Elem
    /\ \A v \in Operands : Elems(v) = {}

\* C12: a pass of All() over an unmodified set yields every element
\* exactly once; a pass of AllX(start) yields Len() pairs whose elements
\* are every element exactly once and whose indices are start, start+1,
\* ... in the order yielded, start being 0 when omitted; every further
\* pass over the same iterator does so again; a consumer that breaks at
\* its k-th item has been yielded exactly k items; and no step of a pass
\* changes the set.
C12_Start(it) == IF it.start = <<>> THEN 0 ELSE it.start[1]

C12_Step ==
    LET it == iter'
        elements == ElemsNext(it.me)
        n == Len(it.keys)
    IN  (iter' # iter /\ it.status \in {"running", "done", "stopped"}) =>
            /\ heap' = heap /\ sets' = sets
            /\ \A j, k \in 1 .. n : it.keys[j] = it.keys[k] => j = k
            /\ Range(it.keys) \subseteq elements
            /\ it.kind = "AllX" =>
                   /\ Len(it.indices) = n
                   /\ \A j \in 1 .. n : it.indices[j] = C12_Start(it) + j - 1
            /\ it.status = "done" =>
                   /\ n = SetLen(heap', sets'[it.me])
                   /\ Range(it.keys) = elements
            /\ it.status = "stopped" => n = it.limit
            /\ it.status = "running" => (it.limit = 0 \/ n < it.limit)
            /\ iter.status \in {"done", "stopped"} => (it.pass = iter.pass + 1 /\ n = 0)

C12_IterationYieldsEachElementOnce == [][C12_Step]_vars

\* The second pass of an iterator made by AllX with a start of 1 has
\* yielded every element of a set of more than one element.
C12_Witness ==
    /\ iter.kind = "AllX"
    /\ iter.start # <<>>
    /\ iter.start[1] = 1
    /\ iter.pass = 2
    /\ iter.status = "done"
    /\ Len(iter.keys) > 1
    /\ iter.indices[Len(iter.indices)] = Len(iter.keys)

\* A consumer broke out of the loop at its first item, with more to come.
C12_StoppedEarly ==
    /\ iter.status = "stopped"
    /\ Len(iter.keys) = 1
    /\ Len(iter.order) > 1

\* C13: in the ordered variant String() returns {...N elements...} (the
\* dots standing for the ellipsis character) when the element count N
\* exceeds MaxDisplayableElements, and otherwise, also when N equals the
\* threshold or is 0, the elements in ascending order, each once, separated
\* by single spaces inside braces; String() does not change the set.
C13_Text(e) == IF IsString(e) THEN "\"" \o e.str \o "\"" ELSE ToString(e.int)

C13_Least(elements) == CHOOSE e \in elements : \A f \in elements \ {e} : Less(e, f)

RECURSIVE C13_Ascending(_)
C13_Ascending(elements) ==
    IF elements = {} THEN ""
    ELSE LET e == C13_Least(elements)
         IN  C13_Text(e) \o (IF elements = {e} THEN "" ELSE " " \o C13_Ascending(elements \ {e}))

C13_Step ==
    LET me == last'.me
        n == Cardinality(Elems(me))
    IN  last'.op = "OrderedString" =>
            /\ heap' = heap /\ sets' = sets
            /\ n > MaxDisplayableElements =>
                   last'.ret = "{" \o Ellipsis \o ToString(n) \o " elements" \o Ellipsis \o "}"
            /\ n <= MaxDisplayableElements =>
                   last'.ret = "{" \o C13_Ascending(Elems(me)) \o "}"
            /\ n = 0 => last'.ret = "{}"

C13_OrderedStringTruncatesAboveThreshold == [][C13_Step]_vars

\* A set of two ints was rendered with a threshold of one.
C13_Witness ==
    /\ last.op = "OrderedString"
    /\ MaxDisplayableElements = 1
    /\ Elems(last.me) = {IntValue(0), IntValue(1)}
    /\ last.ret = "{...2 elements...}"

\* The same set was rendered with a threshold of two, its element count.
C13_AtThreshold ==
    /\ last.op = "OrderedString"
    /\ MaxDisplayableElements = 2
    /\ Elems(last.me) = {IntValue(0), IntValue(1)}
    /\ last.ret = "{0 1}"

\* A set of two strings was rendered under the default threshold.
C13_Strings ==
    /\ last.op = "OrderedString"
    /\ MaxDisplayableElements = DefaultMaxDisplayableElements
    /\ last.ret = "{\"a\" \"b\"}"

\* C14 as stated: two calls of String() on the same set with no call in
\* between return identical output, in the ordered and in the unordered
\* variant.
C14_OriginalStep ==
    (/\ last.op \in {"String", "OrderedString"}
     /\ last'.op = last.op
     /\ last'.me = last.me) => last'.ret = last.ret

C14_StringIsReferentiallyTransparent == [][C14_OriginalStep]_vars

\* C14 as amended: String() never changes the set, and two calls of it on
\* the same set with no call in between return identical output in the
\* ordered variant, and in the unordered variant when the set has at most
\* one element.
C14_Step ==
    LET me == last'.me
    IN  /\ last'.op \in {"String", "OrderedString"} => (heap' = heap /\ sets' = sets)
        /\ (last.op = "OrderedString" /\ last'.op = last.op /\ last'.me = last.me) =>
               last'.ret = last.ret
        /\ (/\ last.op = "String" /\ last'.op = last.op /\ last'.me = last.me
            /\ Cardinality(Elems(me)) <= 1) => last'.ret = last.ret

C14_OrderedStringIsReferentiallyTransparent == [][C14_Step]_vars

\* The ordered variant rendered a set of two strings in full.
C14_Witness ==
    /\ last.op = "OrderedString"
    /\ last.ret = "{\"a\" \"b\"}"
    /\ MaxDisplayableElements = 2

\* The unordered variant rendered a set of two ints largest first.
C14_UnorderedLargestFirst ==
    /\ last.op = "String"
    /\ Elems(last.me) = {IntValue(0), IntValue(1)}
    /\ last.ret = "{1 0}"

C15_NoPanic == panic = None

RECURSIVE C16_Join(_, _)
C16_Join(order, i) ==
    IF i > Len(order) THEN ""
    ELSE (IF i = 1 THEN "" ELSE " ") \o C13_Text(order[i]) \o C16_Join(order, i + 1)

C16_Step ==
    LET me == last'.me
    IN  (\/ last'.op = "String"
         \/ last'.op = "OrderedString" /\ Cardinality(Elems(me)) <= MaxDisplayableElements) =>
            \E order \in RangeOrders(heap[sets[me]]) :
                last'.ret = "{" \o C16_Join(order, 1) \o "}"

C16_QuotingIsPerElement == [][C16_Step]_vars

\* The unordered variant rendered a set of an int and a string with the
\* string unquoted, the format being chosen by the int visited first.
C16_StringUnquoted ==
    /\ last.op = "String"
    /\ Elems(last.me) = {IntValue(1), StringValue("a")}
    /\ last.ret \in {"{1 a}", "{a 1}"}

\* The same set rendered with the int as a quoted character, the format
\* being chosen by the string visited first.
C16_IntQuoted ==
    /\ last.op = "String"
    /\ Elems(last.me) = {IntValue(1), StringValue("a")}
    /\ last.ret \in {"{'\\x01' \"a\"}", "{\"a\" '\\x01'}"}

\* For sets of one kind of element the quoting is as C16 states, in both
\* variants.
C16_OneKindStep ==
    (last'.op \in {"String", "OrderedString"} /\ Homogeneous(Elems(last'.me))) => C16_Step

C16_QuotingOfOneKindIsPerElement == [][C16_OneKindStep]_vars

====
